---------------------------- MODULE Spec2Model ----------------------------
(***************************************************************************)
(* Formula trees of Lem22/Ikm-Python (src/ikm.py; src/ikm2.py is the same  *)
(* program written with closures): the recursive-descent parser, the       *)
(* simplifier (factoring and constant folding), the evaluator and the      *)
(* infix rendering.                                                        *)
(*                                                                         *)
(* Python objects live in a heap, a sequence of records addressed by their *)
(* index, so that the in-place assignments of simplify (self.left = ...)   *)
(* and the identity comparison Python falls back to for a class without    *)
(* __eq__ are modelled as the interpreter performs them.  A text is a      *)
(* sequence of one-character strings.                                      *)
(***************************************************************************)
EXTENDS Integers, Sequences, FiniteSets, TLC

VARIABLES
    pc,         \* position of the run: which call returned last
    expr,       \* the formula the user typed
    heap,       \* the Python objects
    built,      \* shape of the tree as the parser or the caller built it
    tree,       \* address of that tree's root; 0 is None
    shown,      \* the text to_infix returned last
    shownAt,    \* address of the tree that text renders
    parsed,     \* address of the root Parser.parse returned
    simplified, \* address of the root tree.simplify() returned
    again,      \* address of the root simplified.simplify() returned
    variables,  \* the mapping handed to evaluate
    result,     \* the integer evaluate returned
    error       \* the exception that ended the run, "" when none

vars == <<pc, expr, heap, built, tree, shown, shownAt, parsed, simplified,
          again, variables, result, error>>

(***************************************************************************)
(* Shapes: trees as values, the structure a tree of objects has.           *)
(***************************************************************************)
Lit(n) == [cls |-> "ValueNode", int |-> n]
Var(s) == [cls |-> "ValueNode", str |-> s]
Neg(c) == [cls |-> "UnaryMinusNode", child |-> c]
Bin(op, l, r) == [cls |-> "BinaryOpNode", op |-> op, left |-> l, right |-> r]

IsValue(o) == o.cls = "ValueNode"
IsUnary(o) == o.cls = "UnaryMinusNode"
IsBinary(o) == o.cls = "BinaryOpNode"
\* isinstance(self.value, int)
IsIntValue(o) == IsValue(o) /\ "int" \in DOMAIN o

None == 0
\* The shape of no tree.
NoShape == [cls |-> "NoneType"]

\* What a call hands back: the heap it left, the object it returned and
\* the exception it raised ("" when it returned).
Return(h, r) == [h |-> h, r |-> r, exc |-> ""]
Raise(h, e) == [h |-> h, r |-> None, exc |-> e]

\* A constructor call: the new object gets the next address.
New(h, obj) == Return(Append(h, obj), Len(h) + 1)

RECURSIVE Alloc(_, _)
\* The objects of a tree of shape t, constructed leaves first.
Alloc(h, t) ==
    IF IsValue(t) THEN New(h, t)
    ELSE IF IsUnary(t) THEN
        LET c == Alloc(h, t.child) IN New(c.h, Neg(c.r))
    ELSE
        LET l == Alloc(h, t.left)
            r == Alloc(l.h, t.right)
        IN New(r.h, Bin(t.op, l.r, r.r))

RECURSIVE Shape(_, _)
\* The shape of the tree of objects rooted at address a.
Shape(h, a) ==
    IF IsValue(h[a]) THEN h[a]
    ELSE IF IsUnary(h[a]) THEN Neg(Shape(h, h[a].child))
    ELSE Bin(h[a].op, Shape(h, h[a].left), Shape(h, h[a].right))

(***************************************************************************)
(* Equality, == of the Python objects.                                     *)
(***************************************************************************)
RECURSIVE NodeEq(_, _, _)
NodeEq(h, a, b) ==
    IF IsValue(h[a]) THEN
        /\ IsValue(h[b])
        /\ IsIntValue(h[a]) = IsIntValue(h[b])
        /\ IF IsIntValue(h[a]) THEN h[a].int = h[b].int
                               ELSE h[a].str = h[b].str
    ELSE IF IsBinary(h[a]) THEN
        /\ IsBinary(h[b])
        /\ h[a].op = h[b].op
        /\ NodeEq(h, h[a].left, h[b].left)
        /\ NodeEq(h, h[a].right, h[b].right)
    ELSE
        \* UnaryMinusNode defines no __eq__: a ValueNode or BinaryOpNode
        \* on the right answers False through its reflected __eq__, and
        \* two UnaryMinusNodes compare by identity.
        a = b

(***************************************************************************)
(* evaluate                                                                *)
(***************************************************************************)
Val(n) == [v |-> n, exc |-> ""]
Fail(e) == [v |-> 0, exc |-> e]

\* Python's //, which rounds toward negative infinity.
FloorDiv(l, r) == l \div r

ApplyOpTruncating(op, l, r) ==
    CASE op = "+" -> Val(l + r)
      [] op = "-" -> Val(l - r)
      [] op = "*" -> Val(l * r)
      [] op = "/" -> IF r = 0 THEN Fail("ZeroDivisionError")
                     ELSE IF (l < 0) = (r < 0) THEN Val(FloorDiv(l, r))
                     ELSE Val(-FloorDiv(-l, r))
      [] OTHER -> Fail("ValueError")

ApplyOp(op, l, r) ==
    CASE op = "+" -> Val(l + r)
      [] op = "-" -> Val(l - r)
      [] op = "*" -> Val(l * r)
      [] op = "/" -> IF r = 0 THEN Fail("ZeroDivisionError")
                     ELSE Val(FloorDiv(l, r))
      [] OTHER -> Fail("ValueError")

RECURSIVE evaluate(_, _, _)
evaluate(h, self, env) ==
    IF IsValue(h[self]) THEN
        IF IsIntValue(h[self]) THEN Val(h[self].int)
        ELSE IF h[self].str \in DOMAIN env THEN Val(env[h[self].str])
        ELSE Fail("ValueError")
    ELSE IF IsUnary(h[self]) THEN
        LET c == evaluate(h, h[self].child, env) IN
        IF c.exc # "" THEN c ELSE Val(-c.v)
    ELSE
        LET left_val == evaluate(h, h[self].left, env) IN
        IF left_val.exc # "" THEN left_val
        ELSE LET right_val == evaluate(h, h[self].right, env) IN
             IF right_val.exc # "" THEN right_val
             ELSE ApplyOp(h[self].op, left_val.v, right_val.v)

(***************************************************************************)
(* simplify                                                                *)
(***************************************************************************)
RECURSIVE simplify(_, _)

\* Which factoring rewrite applies to l1*l2 (+|-) r1*r2.
FactorChoiceLeftFirst(h, l1, l2, r1, r2) ==
    IF NodeEq(h, l1, r1) THEN "left"
    ELSE IF NodeEq(h, l2, r2) THEN "right"
    ELSE "none"

FactorChoiceAlways(h, l1, l2, r1, r2) == "right"

FactorChoice(h, l1, l2, r1, r2) ==
    IF NodeEq(h, l2, r2) THEN "right"
    ELSE IF NodeEq(h, l1, r1) THEN "left"
    ELSE "none"

\* The inner node of a rewrite is simplified before the outer is built.
SimplifyInner(h, inner) == simplify(h, inner)

\* Constant folding applies to two integer ValueNodes.
ShouldFoldNoDivision(h, self) ==
    /\ IsIntValue(h[h[self].left])
    /\ IsIntValue(h[h[self].right])
    /\ h[self].op # "/"

ShouldFold(h, self) ==
    /\ IsIntValue(h[h[self].left])
    /\ IsIntValue(h[h[self].right])

\* The folding test made on the child as it was before it is simplified.
UnaryMinusNode_simplifyTestFirst(h, self) ==
    IF IsIntValue(h[h[self].child]) THEN New(h, Lit(-h[h[self].child].int))
    ELSE LET c == simplify(h, h[self].child) IN
         IF c.exc # "" THEN c
         ELSE Return([c.h EXCEPT ![self].child = c.r], self)

UnaryMinusNode_simplify(h, self) ==
    LET c == simplify(h, h[self].child) IN
    IF c.exc # "" THEN c
    ELSE LET h1 == [c.h EXCEPT ![self].child = c.r] IN
         IF IsIntValue(h1[c.r]) THEN New(h1, Lit(-h1[c.r].int))
         ELSE Return(h1, self)

\* The rewrite and folding steps, the operands already simplified.
BinaryOpNode_rewrite(h, self) ==
    LET op == h[self].op
        left == h[self].left
        right == h[self].right
        l1 == h[left].left
        l2 == h[left].right
        r1 == h[right].left
        r2 == h[right].right
        factor ==
            IF /\ op \in {"+", "-"}
               /\ IsBinary(h[left]) /\ IsBinary(h[right])
               /\ h[left].op = "*" /\ h[right].op = "*"
            THEN FactorChoice(h, l1, l2, r1, r2)
            ELSE "none"
    IN
    IF factor = "right" THEN
        LET n == New(h, Bin(op, l1, r1))
            inner == SimplifyInner(n.h, n.r)
        IN IF inner.exc # "" THEN inner
           ELSE LET outer == New(inner.h, Bin("*", inner.r, l2))
                IN simplify(outer.h, outer.r)
    ELSE IF factor = "left" THEN
        LET n == New(h, Bin(op, l2, r2))
            inner == SimplifyInner(n.h, n.r)
        IN IF inner.exc # "" THEN inner
           ELSE LET outer == New(inner.h, Bin("*", l1, inner.r))
                IN simplify(outer.h, outer.r)
    ELSE IF ShouldFold(h, self) THEN
        LET e == evaluate(h, self, << >>) IN
        IF e.exc # "" THEN Raise(h, e.exc) ELSE New(h, Lit(e.v))
    ELSE Return(h, self)

BinaryOpNode_simplify(h, self) ==
    LET l == simplify(h, h[self].left) IN
    IF l.exc # "" THEN l
    ELSE LET h1 == [l.h EXCEPT ![self].left = l.r]
             r == simplify(h1, h1[self].right)
         IN IF r.exc # "" THEN r
            ELSE BinaryOpNode_rewrite([r.h EXCEPT ![self].right = r.r], self)

simplify(h, self) ==
    IF IsValue(h[self]) THEN Return(h, self)
    ELSE IF IsUnary(h[self]) THEN UnaryMinusNode_simplify(h, self)
    ELSE BinaryOpNode_simplify(h, self)

(***************************************************************************)
(* to_infix                                                                *)
(***************************************************************************)
DigitChars == <<"0", "1", "2", "3", "4", "5", "6", "7", "8", "9">>
Digits == {DigitChars[i] : i \in 1..10}
Letters ==
    {"a", "b", "c", "d", "e", "f", "g", "h", "i", "j", "k", "l", "m",
     "n", "o", "p", "q", "r", "s", "t", "u", "v", "w", "x", "y", "z",
     "A", "B", "C", "D", "E", "F", "G", "H", "I", "J", "K", "L", "M",
     "N", "O", "P", "Q", "R", "S", "T", "U", "V", "W", "X", "Y", "Z"}

\* str.isdigit and str.isalpha of one character; both are False of ''.
isdigit(ch) == ch \in Digits
isalpha(ch) == ch \in Letters

RECURSIVE DecimalDigits(_)
DecimalDigits(n) ==
    IF n < 10 THEN <<DigitChars[n + 1]>>
    ELSE DecimalDigits(n \div 10) \o <<DigitChars[(n % 10) + 1]>>

\* str(n) of an int
str_int(n) == IF n < 0 THEN <<"-">> \o DecimalDigits(-n) ELSE DecimalDigits(n)

BinaryInfixBare(l, op, r) == l \o <<" ", op, " ">> \o r

BinaryInfix(l, op, r) == <<"(">> \o l \o <<" ", op, " ">> \o r \o <<")">>

RECURSIVE to_infix(_, _)
to_infix(h, self) ==
    IF IsValue(h[self]) THEN
        IF IsIntValue(h[self]) THEN str_int(h[self].int) ELSE <<h[self].str>>
    ELSE IF IsUnary(h[self]) THEN
        <<"-", "(">> \o to_infix(h, h[self].child) \o <<")">>
    ELSE
        BinaryInfix(to_infix(h, h[self].left), h[self].op,
                    to_infix(h, h[self].right))

(***************************************************************************)
(* Parser                                                                  *)
(***************************************************************************)
OPERATORS_PRIORITY == ("+" :> 1) @@ ("-" :> 1) @@ ("*" :> 2) @@ ("/" :> 2)
Operators == DOMAIN OPERATORS_PRIORITY

\* expr.replace(' ', '')
StripSpaces(text) == SelectSeq(text, LAMBDA ch : ch # " ")

\* What a parsing method hands back: the heap, the position it stopped
\* at, the node it returned and the exception it raised.
Parsed(h, pos, r) == [h |-> h, pos |-> pos, r |-> r, exc |-> ""]
ParseError(h, pos) == [h |-> h, pos |-> pos, r |-> None, exc |-> "ParseError"]

current(e, pos) == IF pos < Len(e) THEN e[pos + 1] ELSE ""

priority(op) == IF op \in Operators THEN OPERATORS_PRIORITY[op] ELSE 0

RECURSIVE IntOf(_)
\* int(s) of a string of decimal digits
IntOf(s) ==
    IF Len(s) = 0 THEN 0
    ELSE 10 * IntOf(SubSeq(s, 1, Len(s) - 1))
         + (CHOOSE d \in 0..9 : DigitChars[d + 1] = s[Len(s)])

RECURSIVE DigitsEnd(_, _)
\* The loop of _parse_number: the first position that holds no digit.
DigitsEnd(e, pos) ==
    IF isdigit(current(e, pos)) THEN DigitsEnd(e, pos + 1) ELSE pos

parse_number(e, h, pos) ==
    LET stop == DigitsEnd(e, pos)
        n == New(h, Lit(IntOf(SubSeq(e, pos + 1, stop))))
    IN Parsed(n.h, stop, n.r)

\* The threshold the right operand of op is parsed with.
RightThresholdSame(op) == priority(op)

RightThreshold(op) == priority(op) + 1

RECURSIVE parse_expression(_, _, _, _)
RECURSIVE parse_operators(_, _, _, _, _)
RECURSIVE parse_unary(_, _, _)

parse_primary(e, h, pos) ==
    LET ch == current(e, pos) IN
    IF ch = "(" THEN
        LET node == parse_expression(e, h, pos + 1, 0) IN
        IF node.exc # "" THEN node
        ELSE IF current(e, node.pos) # ")" THEN ParseError(node.h, node.pos)
        ELSE Parsed(node.h, node.pos + 1, node.r)
    ELSE IF isdigit(ch) THEN parse_number(e, h, pos)
    ELSE IF isalpha(ch) THEN
        LET n == New(h, Var(ch)) IN Parsed(n.h, pos + 1, n.r)
    ELSE ParseError(h, pos)

parse_unary(e, h, pos) ==
    IF current(e, pos) = "-" THEN
        LET c == parse_unary(e, h, pos + 1) IN
        IF c.exc # "" THEN c
        ELSE LET n == New(c.h, Neg(c.r)) IN Parsed(n.h, c.pos, n.r)
    ELSE parse_primary(e, h, pos)

\* The while loop of _parse_expression, node being the operand so far.
parse_operators(e, h, pos, node, min_priority) ==
    LET op == current(e, pos) IN
    IF op \in Operators /\ priority(op) >= min_priority THEN
        LET right == parse_expression(e, h, pos + 1, RightThreshold(op)) IN
        IF right.exc # "" THEN right
        ELSE LET n == New(right.h, Bin(op, node, right.r))
             IN parse_operators(e, n.h, right.pos, n.r, min_priority)
    ELSE Parsed(h, pos, node)

parse_expression(e, h, pos, min_priority) ==
    LET node == parse_unary(e, h, pos) IN
    IF node.exc # "" THEN node
    ELSE parse_operators(e, node.h, node.pos, node.r, min_priority)

\* The check of parse that nothing follows the expression.
NothingLeftUnchecked(e, pos) == TRUE

NothingLeft(e, pos) == pos = Len(e)

\* Parser(text).parse()
parse(h, text) ==
    LET e == StripSpaces(text)
        res == parse_expression(e, h, 0, 0)
    IN IF res.exc # "" THEN res
       ELSE IF ~NothingLeft(e, res.pos) THEN ParseError(res.h, res.pos)
       ELSE res

(***************************************************************************)
(* Inputs                                                                  *)
(***************************************************************************)
MaxLen == 4         \* typed texts of up to this many characters
MaxOperands == 3    \* operator chains of up to this many operands
MaxNest == 12       \* formulas wrapped in up to this many parentheses
MaxSize == 5        \* trees of up to this many nodes, every shape
NestLimit == 10     \* the nesting the task statement allows

Alphabet == {"a", "b", "1", "+", "-", "*", "/", "(", ")", " ", "?"}
TypedTexts == UNION {[1..k -> Alphabet] : k \in 0..MaxLen}

ChainOperands == {<<"a">>, <<"b">>, <<"-", "a">>, <<"1", "2">>}
Chains[k \in 1..MaxOperands] ==
    IF k = 1 THEN ChainOperands
    ELSE {c \o <<op>> \o o :
            c \in Chains[k - 1], op \in Operators, o \in ChainOperands}
ChainTexts == UNION {Chains[k] : k \in 1..MaxOperands}

RECURSIVE Wrap(_, _)
Wrap(text, k) ==
    IF k = 0 THEN text ELSE <<"(">> \o Wrap(text, k - 1) \o <<")">>
NestSeeds == {<<"a">>, <<"a", "+", "b">>, <<"-", "1">>, <<"a", "*", "(", "b", ")">>}
NestedTexts == {Wrap(seed, k) : seed \in NestSeeds, k \in 0..MaxNest}

ExampleTexts ==
    { <<"2", "+", "3", "*", "4">>,
      <<"a", "*", "c", "+", "b", "*", "c">>,
      <<"(", "a", "+", "b", ")", "*", "c">>,
      <<"a", "*", "b", "-", "a", "*", "c">>,
      <<"a", "*", "(", "b", "-", "c", ")">>,
      <<"a", "/", "b">>,
      <<"5", "/", "2">>,
      <<"-", "5", "/", "2">>,
      <<"x", "+", "1">>,
      <<"(", "a", "+", "b">>,
      <<"a", "+">>,
      <<"a", " ", "*", " ", "c", " ", "+", " ", "b", " ", "*", " ", "c">> }

InputTexts == TypedTexts \cup ChainTexts \cup NestedTexts \cup ExampleTexts

VarValues == {-5, 5}

\* Trees a caller builds from the node classes.
Leaves == {Var("a"), Lit(0), Lit(2)}
TreesOfSize[n \in 1..MaxSize] ==
    IF n = 1 THEN Leaves
    ELSE {Neg(c) : c \in TreesOfSize[n - 1]}
         \cup UNION {{Bin(op, l, r) : op \in Operators,
                        l \in TreesOfSize[i], r \in TreesOfSize[n - 1 - i]} :
                     i \in 1..(n - 2)}
SizedTrees == UNION {TreesOfSize[n] : n \in 1..MaxSize}

\* Sums and differences of two products, the shape the rewrites look for.
Factors ==
    { Var("a"), Var("b"), Lit(2), Lit(3),
      Bin("+", Lit(1), Lit(1)),
      Neg(Var("a")),
      Bin("*", Var("a"), Var("b")),
      Bin("+", Bin("*", Lit(2), Var("b")), Bin("*", Var("a"), Var("b"))) }
FactorTrees ==
    {Bin(op, Bin("*", x1, x2), Bin("*", y1, y2)) :
        op \in {"+", "-"}, x1 \in Factors, x2 \in Factors,
        y1 \in Factors, y2 \in Factors}

ParsedShape(text) ==
    LET res == parse(<< >>, text) IN
    IF res.exc # "" THEN NoShape ELSE Shape(res.h, res.r)
ExampleTrees ==
    ({ParsedShape(text) : text \in ExampleTexts} \ {NoShape})
    \cup {Lit(-3), Bin("*", Lit(12), Lit(12)), Bin("/", Lit(1), Lit(0))}

DirectTrees == SizedTrees \cup FactorTrees \cup ExampleTrees

VarMaps ==
    { << >>,
      ("a" :> 5) @@ ("b" :> 2) @@ ("c" :> 3),
      ("a" :> -5) @@ ("b" :> 2) @@ ("c" :> -3) }

(***************************************************************************)
(* The run of the program: the formula is read, parsed, printed,           *)
(* simplified, printed again and evaluated.                                *)
(***************************************************************************)
Init ==
    /\ pc = "input"
    /\ expr \in InputTexts
    /\ heap = << >>
    /\ built = NoShape
    /\ tree = None
    /\ shown = << >>
    /\ shownAt = None
    /\ parsed = None
    /\ simplified = None
    /\ again = None
    /\ variables = << >>
    /\ result = 0
    /\ error = ""

\* A caller that builds the tree from the node classes instead.
InitTree ==
    /\ pc = "built"
    /\ expr = << >>
    /\ built \in DirectTrees
    /\ LET t == Alloc(<< >>, built) IN heap = t.h /\ tree = t.r
    /\ shown = << >>
    /\ shownAt = None
    /\ parsed = None
    /\ simplified = None
    /\ again = None
    /\ variables = << >>
    /\ result = 0
    /\ error = ""

\* tree = parser.parse()
Parse ==
    /\ pc = "input"
    /\ LET res == parse(heap, expr) IN
        /\ heap' = res.h
        /\ error' = res.exc
        /\ tree' = res.r
        /\ parsed' = res.r
        /\ built' = IF res.exc = "" THEN Shape(res.h, res.r) ELSE NoShape
    /\ pc' = "parsed"
    /\ UNCHANGED <<expr, shown, shownAt, simplified, again, variables, result>>

\* print(tree.to_infix())
PrintOriginal ==
    /\ pc \in {"parsed", "built"}
    /\ error = ""
    /\ shown' = to_infix(heap, tree)
    /\ shownAt' = tree
    /\ pc' = "printed"
    /\ UNCHANGED <<expr, heap, built, tree, parsed, simplified, again,
                   variables, result, error>>

\* simplified = tree.simplify()
Simplify ==
    /\ pc = "printed"
    /\ LET res == simplify(heap, tree) IN
        /\ heap' = res.h
        /\ error' = res.exc
        /\ simplified' = res.r
    /\ pc' = "simplified"
    /\ UNCHANGED <<expr, built, tree, shown, shownAt, parsed, again,
                   variables, result>>

\* print(simplified.to_infix())
PrintSimplified ==
    /\ pc = "simplified"
    /\ error = ""
    /\ shown' = to_infix(heap, simplified)
    /\ shownAt' = simplified
    /\ pc' = "printed2"
    /\ UNCHANGED <<expr, heap, built, tree, parsed, simplified, again,
                   variables, result, error>>

\* The letters of the formula, set(filter(str.isalpha, expr)).
LettersOf(text) == {text[i] : i \in {j \in 1..Len(text) : isalpha(text[j])}}

\* result = simplified.evaluate(variables), variables holding a value
\* the user typed for every letter of the formula.
Evaluate ==
    /\ pc = "printed2"
    /\ expr # << >>
    /\ \E env \in [LettersOf(expr) -> VarValues] :
        LET res == evaluate(heap, simplified, env) IN
        /\ variables' = env
        /\ result' = res.v
        /\ error' = res.exc
    /\ pc' = "evaluated"
    /\ UNCHANGED <<expr, heap, built, tree, shown, shownAt, parsed,
                   simplified, again>>

\* simplified.evaluate(variables) with a mapping of the caller's.
EvaluateWith ==
    /\ pc = "printed2"
    /\ expr = << >>
    /\ \E env \in VarMaps :
        LET res == evaluate(heap, simplified, env) IN
        /\ variables' = env
        /\ result' = res.v
        /\ error' = res.exc
    /\ pc' = "evaluated"
    /\ UNCHANGED <<expr, heap, built, tree, shown, shownAt, parsed,
                   simplified, again>>

\* tree.evaluate(variables) of the tree as built, not simplified.
EvaluateBuilt ==
    /\ pc = "printed"
    /\ \E env \in VarMaps :
        LET res == evaluate(heap, tree, env) IN
        /\ variables' = env
        /\ result' = res.v
        /\ error' = res.exc
    /\ pc' = "evaluated0"
    /\ UNCHANGED <<expr, heap, built, tree, shown, shownAt, parsed,
                   simplified, again>>

\* simplified.simplify(), the pass applied to its own result.
SimplifyAgain ==
    /\ pc = "printed2"
    /\ LET res == simplify(heap, simplified) IN
        /\ heap' = res.h
        /\ error' = res.exc
        /\ again' = res.r
    /\ pc' = "resimplified"
    /\ UNCHANGED <<expr, built, tree, shown, shownAt, parsed, simplified,
                   variables, result>>

\* Parser(shown).parse(), the printed text read back.
Reparse ==
    /\ pc \in {"printed", "printed2"}
    /\ LET res == parse(heap, shown) IN
        /\ heap' = res.h
        /\ error' = res.exc
        /\ parsed' = res.r
    /\ pc' = "reparsed"
    /\ UNCHANGED <<expr, built, tree, shown, shownAt, simplified, again,
                   variables, result>>

Next ==
    \/ Parse
    \/ PrintOriginal
    \/ Simplify
    \/ PrintSimplified
    \/ Evaluate

Spec == Init /\ [][Next]_vars

NextTree ==
    \/ PrintOriginal
    \/ Simplify
    \/ PrintSimplified
    \/ EvaluateWith
    \/ EvaluateBuilt
    \/ SimplifyAgain
    \/ Reparse

SpecTree == InitTree /\ [][NextTree]_vars

(***************************************************************************)
(* Properties of the parser                                                *)
(***************************************************************************)
Chars(text, set) == SelectSeq(text, LAMBDA ch : ch \in set)
CountOf(text, set) == Len(Chars(text, set))

\* The deepest nesting of parentheses a scan of the text meets.
MaxNesting(text) ==
    LET open(i) == CountOf(SubSeq(text, 1, i), {"("})
                   - CountOf(SubSeq(text, 1, i), {")"})
        depths == {open(i) : i \in 0..Len(text)}
    IN CHOOSE d \in depths : \A other \in depths : other <= d

\* C1: a formula whose parentheses nest deeper than 10 is rejected with
\* ParseError, and a well-formed one that nests exactly 10 deep parses.
C1_NestingLimitEnforced ==
    pc = "parsed" =>
        /\ MaxNesting(expr) > NestLimit => error = "ParseError"
        /\ (expr \in NestedTexts /\ MaxNesting(expr) = NestLimit) => error = ""

\* The formulas of the grammar, by length:
\*   expression := unary (binop unary)*,  unary := '-' unary | primary,
\*   primary := '(' expression ')' | digits | letter
\* written with the characters of Alphabet.
Grammar[n \in 0..MaxLen] ==
    IF n = 0 THEN [E |-> {}, U |-> {}, P |-> {}]
    ELSE
        LET numbers == [1..n -> Alphabet \cap Digits]
            names == IF n = 1 THEN {<<ch>> : ch \in Alphabet \cap Letters}
                     ELSE {}
            groups == IF n < 3 THEN {}
                      ELSE {<<"(">> \o e \o <<")">> : e \in Grammar[n - 2].E}
            P == numbers \cup names \cup groups
            U == P \cup {<<"-">> \o u : u \in Grammar[n - 1].U}
            E == U \cup UNION {{e \o <<op>> \o u :
                                  e \in Grammar[i].E,
                                  op \in {"+", "-", "*", "/"},
                                  u \in Grammar[n - 1 - i].U} :
                               i \in 1..(n - 2)}
        IN [E |-> E, U |-> U, P |-> P]

WellFormedTexts == UNION {Grammar[n].E : n \in 0..MaxLen}
WellFormed(text) == text \in WellFormedTexts

Unparenthesized(text) == SelectSeq(text, LAMBDA ch : ch \notin {"(", ")", " "})

IsChain(e) ==
    /\ Len(e) > 0
    /\ \A i \in 1..Len(e) : e[i] \in Letters \cup Digits \cup {"+", "-", "*", "/"}
    /\ e[Len(e)] \in Letters \cup Digits
    /\ \A i \in 1..Len(e) :
          /\ e[i] \in {"+", "*", "/"} => (i > 1 /\ e[i - 1] \in Letters \cup Digits)
          /\ (e[i] \in Letters /\ i < Len(e)) => e[i + 1] \in {"+", "-", "*", "/"}
          /\ (e[i] \in Digits /\ i < Len(e)) => e[i + 1] \notin Letters

\* A sign is a binary operator when an operand ends right before it.
BinaryAt(e, i) ==
    /\ e[i] \in {"+", "-", "*", "/"}
    /\ i > 1
    /\ e[i - 1] \in Letters \cup Digits

Last(set) == CHOOSE i \in set : \A j \in set : j <= i

RECURSIVE Grouping(_)
\* The tree the usual reading gives a chain: it splits at the last
\* additive operator, else at the last multiplicative one (so that equal
\* operators group to the left), and a chain without one is an operand
\* under its minus signs.
Grouping(e) ==
    LET additive == {i \in 1..Len(e) : BinaryAt(e, i) /\ e[i] \in {"+", "-"}}
        multiplicative == {i \in 1..Len(e) : BinaryAt(e, i) /\ e[i] \in {"*", "/"}}
        split(i) == Bin(e[i], Grouping(SubSeq(e, 1, i - 1)),
                        Grouping(SubSeq(e, i + 1, Len(e))))
    IN IF additive # {} THEN split(Last(additive))
       ELSE IF multiplicative # {} THEN split(Last(multiplicative))
       ELSE IF e[1] = "-" THEN Neg(Grouping(Tail(e)))
       ELSE IF e[1] \in Letters THEN Var(e[1])
       ELSE Lit(IntOf(e))

\* C10: an operator chain parses as the usual reading groups it: equal
\* priorities to the left, * and / tighter than + and -, unary minus
\* tightest.
C10_PrecedenceAndAssociativity ==
    (pc = "parsed" /\ IsChain(StripSpaces(expr))) =>
        /\ error = ""
        /\ built = Grouping(StripSpaces(expr))
        /\ expr = <<"a", "-", "b", "-", "a">> =>
              built = Bin("-", Bin("-", Var("a"), Var("b")), Var("a"))
        /\ expr = <<"a", "/", "b", "*", "a">> =>
              built = Bin("*", Bin("/", Var("a"), Var("b")), Var("a"))
        /\ expr = <<"a", "+", "b", "*", "a">> =>
              built = Bin("+", Var("a"), Bin("*", Var("b"), Var("a")))
        /\ expr = <<"a", "*", "b", "+", "a">> =>
              built = Bin("+", Bin("*", Var("a"), Var("b")), Var("a"))
        /\ expr = <<"-", "a", "*", "b">> =>
              built = Bin("*", Neg(Var("a")), Var("b"))

C10_Witness ==
    /\ pc = "parsed"
    /\ expr = <<"a", "-", "b", "-", "a">>
    /\ built = Bin("-", Bin("-", Var("a"), Var("b")), Var("a"))

(***************************************************************************)
(* Properties of simplify, evaluate and to_infix                           *)
(***************************************************************************)
\* evaluate of a tree of shape t, freshly built.
ValueOf(t, env) == LET a == Alloc(<< >>, t) IN evaluate(a.h, a.r, env)

\* The shape simplify returns for a tree of shape t, freshly built.
SimplifiedShape(t) ==
    LET a == Alloc(<< >>, t)
        s == simplify(a.h, a.r)
    IN IF s.exc # "" THEN NoShape ELSE Shape(s.h, s.r)

RECURSIVE Subtrees(_)
Subtrees(t) ==
    IF IsValue(t) THEN {t}
    ELSE IF IsUnary(t) THEN {t} \cup Subtrees(t.child)
    ELSE {t} \cup Subtrees(t.left) \cup Subtrees(t.right)

IsVariable(t) == IsValue(t) /\ ~IsIntValue(t)
VariableFree(t) == \A s \in Subtrees(t) : ~IsVariable(s)
HasUnaryMinus(t) == \E s \in Subtrees(t) : IsUnary(s)
HasNegativeLiteral(t) == \E s \in Subtrees(t) : IsIntValue(s) /\ s.int < 0

\* C2: whenever the tree as built evaluates to an integer under a
\* mapping, simplify returns and its result evaluates to the same integer.
C2_EvaluationEquivalence ==
    /\ (pc = "simplified" /\ error # "") =>
          \A env \in VarMaps : ValueOf(built, env).exc # ""
    /\ pc = "evaluated" =>
          (ValueOf(built, variables).exc = "" =>
              /\ error = ""
              /\ result = ValueOf(built, variables).v)

C2_Witness ==
    /\ pc = "evaluated"
    /\ built = Bin("+", Bin("*", Var("a"), Var("b")), Bin("*", Lit(2), Var("b")))
    /\ Shape(heap, simplified) = Bin("*", Bin("+", Var("a"), Lit(2)), Var("b"))
    /\ variables = ("a" :> 5) @@ ("b" :> 2) @@ ("c" :> 3)
    /\ result = 14

\* C3: simplify applied to its own result returns a tree of the same
\* shape, which == also reports equal.
C3_Idempotent ==
    pc = "resimplified" =>
        /\ error = ""
        /\ Shape(heap, again) = SimplifiedShape(built)
        /\ NodeEq(heap, again, simplified)

C3_Witness ==
    /\ pc = "resimplified"
    /\ built = Bin("-", Bin("*", Neg(Var("a")), Bin("+", Lit(1), Lit(1))),
                        Bin("*", Lit(3), Lit(2)))
    /\ Shape(heap, again) = Bin("-", Bin("*", Neg(Var("a")), Lit(2)), Lit(6))

\* C5 as stated: simplify never raises.
C5_SimplifyNeverRaises == pc = "simplified" => error = ""

\* C5, amended: simplify returns a node unless the tree holds a subtree
\* without variables whose evaluation divides by zero; then, and only
\* then, it raises ZeroDivisionError.
C5_RaisesOnlyOnConstantZeroDivision ==
    pc = "simplified" =>
        /\ error \in {"", "ZeroDivisionError"}
        /\ error = "" => simplified # None
        /\ error = "ZeroDivisionError" <=>
              \E s \in Subtrees(built) :
                  VariableFree(s) /\ ValueOf(s, << >>).exc = "ZeroDivisionError"

C5_Witness ==
    /\ pc = "simplified"
    /\ built = Bin("*", Var("a"), Bin("/", Lit(2), Lit(0)))
    /\ error = "ZeroDivisionError"

\* C6: the tree handed to simplify has, after the call, the shape it had
\* before.
C6_InputUnchanged == pc = "simplified" => Shape(heap, tree) = built

\* The rounding of l / r toward negative infinity.
IsFloorOf(q, l, r) ==
    IF r > 0 THEN q * r <= l /\ l < (q + 1) * r
    ELSE q * r >= l /\ l > (q + 1) * r

\* C8: a binary node whose operands evaluate to l and r evaluates to
\* l + r, l - r, l * r, or for '/' to the floor of l / r, and '/' fails
\* with ZeroDivisionError exactly when r = 0.
C8_FloorDivision ==
    (pc = "evaluated0" /\ IsBinary(built)) =>
        LET l == ValueOf(built.left, variables)
            r == ValueOf(built.right, variables)
        IN (l.exc = "" /\ r.exc = "") =>
            /\ built.op = "+" => (error = "" /\ result = l.v + r.v)
            /\ built.op = "-" => (error = "" /\ result = l.v - r.v)
            /\ built.op = "*" => (error = "" /\ result = l.v * r.v)
            /\ built.op = "/" =>
                  /\ error = "ZeroDivisionError" <=> r.v = 0
                  /\ r.v # 0 => (error = "" /\ IsFloorOf(result, l.v, r.v))
                  /\ (l.v = 5 /\ r.v = 2) => result = 2
                  /\ (l.v = -5 /\ r.v = 2) => result = -3

C8_Witness ==
    /\ pc = "evaluated0"
    /\ built = Bin("/", Neg(Lit(5)), Lit(2))
    /\ result = -3
    /\ error = ""

RECURSIVE StructurallyEqual(_, _)
\* Structural equality as the data model defines it: same variant and
\* equal contents; two unary minus nodes are never equal.
StructurallyEqual(x, y) ==
    IF IsValue(x) THEN x = y
    ELSE IF IsBinary(x) THEN
        /\ IsBinary(y)
        /\ x.op = y.op
        /\ StructurallyEqual(x.left, y.left)
        /\ StructurallyEqual(x.right, y.right)
    ELSE FALSE

C4_RoundTrip ==
    pc = "reparsed" => (error = "" /\ NodeEq(heap, parsed, shownAt))

RECURSIVE ReadBack(_)
\* The shape with every negative literal -n replaced by UnaryMinus(n).
ReadBack(t) ==
    IF IsValue(t) THEN
        IF IsIntValue(t) /\ t.int < 0 THEN Neg(Lit(-t.int)) ELSE t
    ELSE IF IsUnary(t) THEN Neg(ReadBack(t.child))
    ELSE Bin(t.op, ReadBack(t.left), ReadBack(t.right))

\* C4, amended: the text to_infix gives for a tree always parses; the tree
\* read back has the shape of the original when no literal of it is
\* negative (a literal -n comes back as the unary minus of n), and ==
\* reports the two equal exactly when the original moreover holds no
\* unary minus node.
C4_RoundTripOfShape ==
    pc = "reparsed" =>
        LET T == Shape(heap, shownAt) IN
        /\ error = ""
        /\ Shape(heap, parsed) = ReadBack(T)
        /\ ~HasNegativeLiteral(T) => Shape(heap, parsed) = T
        /\ NodeEq(heap, parsed, shownAt) <=>
              (~HasNegativeLiteral(T) /\ ~HasUnaryMinus(T))

C4_Witness ==
    /\ pc = "reparsed"
    /\ Shape(heap, shownAt) =
          Bin("-", Bin("*", Var("a"), Var("b")), Bin("*", Lit(2), Lit(3)))
    /\ NodeEq(heap, parsed, shownAt)

=============================================================================
